---- MODULE Spec2Model ----
(***************************************************************************)
(* ETF fund flows pipeline: the iShares shares-outstanding scraper          *)
(* (scripts/scrape_ishares.py), the historical backfill                     *)
(* (scripts/backfill_ishares.py) and the flow derivation                    *)
(* (scripts/fetch_flows.py).                                                *)
(*                                                                          *)
(* Representation.                                                          *)
(*   - A date string "YYYY-MM-DD" is the tuple <<y, m, d>>; the compact     *)
(*     string "YYYYMMDD" is the number y*10000 + m*100 + d; a pandas        *)
(*     Timestamp at midnight is a day ordinal (2024-01-01 is ordinal 1).    *)
(*   - An instant (datetime.now()) is counted in half days: 2 * ordinal at  *)
(*     midnight, 2 * ordinal + 1 at noon.                                   *)
(*   - A float that may be NaN, and a value that may be None, is a          *)
(*     sequence: <<>> is NaN / None, <<v>> is the value v.                  *)
(*   - A close price is a whole number of eighths of a dollar (exactly      *)
(*     representable as a binary float), so a flow (shares * close) is in   *)
(*     eighths too; round(x, 0) gives whole dollars, round(x, 2) cents.     *)
(***************************************************************************)
EXTENDS Integers, Sequences, FiniteSets, TLC

VARIABLES
    config,    \* etf_config.json "tickers": sequence of [symbol, ishares]
    file,      \* shares_history.csv: [exists, rows], rows of <<date, ticker, shares>>
    file0,     \* the file as it was when the run started
    prog,      \* which script runs: "scrape_ishares", "backfill_ishares", "fetch_flows"
    pc,        \* position of the run
    history,   \* the in-memory dict (date, ticker) -> shares of the scraper / backfill
    history0,  \* the dict as load_existing_history returned it
    i,         \* index of the ticker the loop is at
    j,         \* backfill: index of the business day the inner loop is at
    w,         \* save_history: number of rows written so far
    outcome,   \* scrape_all: what the last upsert printed ([key, shares, kind]) or <<>>
    matched,   \* backfill: the responses whose returned date was the requested one
    added,     \* backfill_ticker: the new entries of the ticker so far
    total_added, \* backfill main: the sum of the counts backfill_ticker returned
    skipped_date_mismatch, \* backfill_ticker: the responses of the ticker dropped for their date
    requested, \* backfill: the requests sent, <<date_str, symbol>> each, in order
    hist,      \* fetch_etf_data: the price history the provider returned last
    now,       \* the clock of the run: what datetime.now() returns in fetch_etf_data
    df,        \* fetch_etf_data: the derived frame of the last call
    data,      \* main: the value fetch_etf_data returned last (<<>> is None)
    reports,   \* the symbols whose report <symbol>.json main has written
    skipped    \* the symbols main has logged as skipped

vars == <<config, file, file0, prog, pc, history, history0, i, j, w, outcome,
          matched, added, total_added, skipped_date_mismatch, requested,
          hist, now, df, data, reports, skipped>>

storeVars == <<history, history0, j, w, outcome, matched, added, total_added,
               skipped_date_mismatch, requested>>
flowVars == <<now, hist, df, data, reports, skipped>>

----------------------------------------------------------------------------
(* Values that may be absent *)

NaN == <<>>
None == <<>>
Num(v) == <<v>>
IsNa(x) == x = <<>>
NotNa(x) == x # <<>>
Val(x) == x[1]

\* a sequence given as a function, evaluated once into its tuple of values
TupleOf(s) == s \o <<>>

----------------------------------------------------------------------------
(* Calendar *)

\* days before the first of month m in a leap year (2024)
CumDays == <<0, 31, 60, 91, 121, 152, 182, 213, 244, 274, 305, 335>>
MonthLen == <<31, 29, 31, 30, 31, 30, 31, 31, 30, 31, 30, 31>>

\* pd.Timestamp("YYYY-MM-DD"): the day ordinal of a date of 2024
Timestamp(iso) == CumDays[iso[2]] + iso[3]

\* date.strftime("%Y-%m-%d") of a Timestamp of 2024
Strftime(ord) ==
    LET m == CHOOSE k \in 1..12 : CumDays[k] < ord /\ ord <= CumDays[k] + MonthLen[k]
    IN  <<2024, m, ord - CumDays[m]>>

\* d.strftime("%Y%m%d")
StrftimeCompact(ord) ==
    LET iso == Strftime(ord) IN iso[1] * 10000 + iso[2] * 100 + iso[3]

\* f"{date_str[:4]}-{date_str[4:6]}-{date_str[6:8]}"
IsoOfCompact(date_str) ==
    <<date_str \div 10000, (date_str \div 100) % 100, date_str % 100>>

----------------------------------------------------------------------------
(* The history file and the in-memory dict (scrape_ishares.py) *)

\* the tickers of etf_config.json in string order (Python compares str)
SymbolOrder == <<"EWJ", "EWY">>
Symbols == {SymbolOrder[k] : k \in 1..Len(SymbolOrder)}
Rank(symbol) == CHOOSE k \in 1..Len(SymbolOrder) : SymbolOrder[k] = symbol

\* "YYYY-MM-DD" strings compare as their dates do
DateLess(a, b) ==
    \/ a[1] < b[1]
    \/ a[1] = b[1] /\ a[2] < b[2]
    \/ a[1] = b[1] /\ a[2] = b[2] /\ a[3] < b[3]

\* key=lambda x: (x[0][0], x[0][1]) on keys (date, ticker)
KeyLess(a, b) == DateLess(a[1], b[1]) \/ (a[1] = b[1] /\ Rank(a[2]) < Rank(b[2]))

\* A dict is the sequence of its items [key, shares] in insertion order
EmptyDict == <<>>
Keys(h) == {h[k].key : k \in 1..Len(h)}
Get(h, key) == h[CHOOSE k \in 1..Len(h) : h[k].key = key].shares
Item(key, shares) == [key |-> key, shares |-> shares]

\* history[key] = shares: an existing key keeps its place, a new one goes last
SetItem(h, key, shares) ==
    IF key \in Keys(h)
    THEN TupleOf([k \in 1..Len(h) |-> IF h[k].key = key THEN Item(key, shares) ELSE h[k]])
    ELSE Append(h, Item(key, shares))

NoFile == [exists |-> FALSE, rows |-> <<>>]

\* load_existing_history: a later row of the same key overwrites an earlier one
LoadExistingHistory(f) ==
    IF ~f.exists THEN EmptyDict
    ELSE LET rows == f.rows
             key(k) == <<rows[k][1], rows[k][2]>>
             first == SelectSeq([k \in 1..Len(rows) |-> k],
                                LAMBDA k : \A l \in 1..(k-1) : key(l) # key(k))
             last(k) == CHOOSE l \in k..Len(rows) :
                            /\ key(l) = key(k)
                            /\ \A n \in (l+1)..Len(rows) : key(n) # key(k)
         IN  TupleOf([k \in 1..Len(first) |-> Item(key(first[k]), rows[last(first[k])][3])])

\* sorted(history.items(), key=lambda x: (x[0][0], x[0][1]))
SortedEntries(h) == SortSeq(h, LAMBDA a, b : KeyLess(a.key, b.key))

\* the rows save_history writes, in the order it writes them
RowsOf(h) ==
    LET entries == SortedEntries(h)
    IN  TupleOf([k \in 1..Len(entries) |->
                    <<entries[k].key[1], entries[k].key[2], entries[k].shares>>])

\* the file after a completed save_history(h)
SavedFile(h) == [exists |-> TRUE, rows |-> RowsOf(h)]

\* scrape_all lines 196-206: the upsert of one scraped (date, symbol, shares)
UpsertKind(h, key, shares) ==
    IF key \in Keys(h)
    THEN IF Get(h, key) = shares THEN "unchanged" ELSE "updated"
    ELSE "new"

UpsertKeepFirst(h, key, shares) ==
    IF key \in Keys(h) THEN h ELSE SetItem(h, key, shares)

Upsert(h, key, shares) ==
    IF key \in Keys(h)
    THEN IF Get(h, key) = shares THEN h ELSE SetItem(h, key, shares)
    ELSE SetItem(h, key, shares)

----------------------------------------------------------------------------
(* fetch_flows.py: load_shares_history and the derivation of fetch_etf_data *)

\* the rolling windows and the output window of fetch_etf_data
WeeklyWindow == 5
MonthlyWindow == 21
ThreeMonthWindow == 63
SixMonthWindow == 126
CutoffDays == 730
MinPeriods == 1

\* load_shares_history: the rows of one ticker, in file order, as
\* (Timestamp, shares); no file or no row gives the empty series
LoadSharesHistory(f, ticker) ==
    IF ~f.exists THEN <<>>
    ELSE LET rows == SelectSeq(f.rows, LAMBDA r : r[2] = ticker)
         IN  TupleOf([k \in 1..Len(rows) |->
                         [date |-> Timestamp(rows[k][1]), shares |-> rows[k][3]]])

\* df["shares"] = shares: the series aligned on the index of the price frame;
\* a price date with no observation of that very date gets NaN, and an
\* observation whose date is no price date is left out
AlignShares(index, shares) ==
    TupleOf([k \in 1..Len(index) |->
        IF \E l \in 1..Len(shares) : shares[l].date = index[k]
        THEN Num(shares[CHOOSE l \in 1..Len(shares) : shares[l].date = index[k]].shares)
        ELSE NaN])

\* Series.ffill(): a NaN takes the last value before it, in row order
Ffill(col) ==
    TupleOf([k \in 1..Len(col) |->
        LET known == {l \in 1..k : NotNa(col[l])}
        IN  IF known = {} THEN NaN
            ELSE col[CHOOSE l \in known : \A n \in known : n <= l]])

\* df.sort_index(): ascending by date
SortIndex(rows) == SortSeq(rows, LAMBDA a, b : a.date < b.date)

\* lines 100-104: the merged series, rows [date, close, shares]
Merge(prices, shares) ==
    LET index == TupleOf([k \in 1..Len(prices) |-> prices[k].date])
        col == Ffill(AlignShares(index, shares))
        all == TupleOf([k \in 1..Len(prices) |->
                   [date |-> prices[k].date, close |-> prices[k].close, shares |-> col[k]]])
        kept == SelectSeq(all, LAMBDA r : NotNa(r.shares))
    IN  SortIndex([k \in 1..Len(kept) |->
                      [date |-> kept[k].date, close |-> kept[k].close,
                       shares |-> Val(kept[k].shares)]])

\* a diff that starts at 0 instead of NaN
DiffZeroFirst(col) ==
    TupleOf([k \in 1..Len(col) |-> IF k = 1 THEN Num(0) ELSE Num(col[k] - col[k-1])])

\* Series.diff(): NaN in the first row
Diff(col) ==
    TupleOf([k \in 1..Len(col) |-> IF k = 1 THEN NaN ELSE Num(col[k] - col[k-1])])

\* df["shares_change"] * df["close"]: NaN stays NaN
Times(a, b) == IF IsNa(a) THEN NaN ELSE Num(Val(a) * b)

RECURSIVE SumValid(_, _, _)
\* the sum of the values of col[lo..hi] that are not NaN
SumValid(col, lo, hi) ==
    IF lo > hi THEN 0
    ELSE IF lo = hi THEN (IF NotNa(col[lo]) THEN Val(col[lo]) ELSE 0)
    ELSE LET mid == (lo + hi) \div 2
         IN  SumValid(col, lo, mid) + SumValid(col, mid + 1, hi)

\* the running state of pandas' sum after k rows: [sum_x, nobs] over all of them
Running(col) ==
    TupleOf([k \in 1..Len(col) |->
        [sum |-> SumValid(col, 1, k),
         nobs |-> Cardinality({l \in 1..k : NotNa(col[l])})]])

\* Series.rolling(window, min_periods).sum(): pandas slides the window, adding
\* the value that enters and removing the one that leaves (NaN not counted),
\* so after row k it holds the running state less the state window rows back;
\* the result is NaN while fewer than min_periods values are in the window
RollingOf(run, window, min_periods) ==
    TupleOf([k \in 1..Len(run) |->
        LET out == IF k - window >= 1 THEN run[k - window] ELSE [sum |-> 0, nobs |-> 0]
        IN  IF run[k].nobs - out.nobs >= min_periods
            THEN Num(run[k].sum - out.sum)
            ELSE NaN])

\* a window that also takes the row before the trailing window rows
RollingSumOneMore(col, window, min_periods) ==
    RollingOf(Running(col), window + 1, min_periods)

RollingSum(col, window, min_periods) == RollingOf(Running(col), window, min_periods)

\* a cumsum over fillna(0): a NaN row carries the running total
CumsumFillZero(col) ==
    LET run == Running(col)
    IN  TupleOf([k \in 1..Len(col) |-> Num(run[k].sum)])

\* Series.cumsum(): the running total of the values that are not NaN, and NaN
\* in the rows whose value is NaN (skipna)
Cumsum(col) ==
    LET run == Running(col)
    IN  TupleOf([k \in 1..Len(col) |-> IF NotNa(col[k]) THEN Num(run[k].sum) ELSE NaN])

\* lines 106-115: the frame with the derived columns
Derive(merged) ==
    LET n == Len(merged)
        shares_change == Diff(TupleOf([k \in 1..n |-> merged[k].shares]))
        daily_flow == TupleOf([k \in 1..n |-> Times(shares_change[k], merged[k].close)])
        weekly == RollingSum(daily_flow, WeeklyWindow, MinPeriods)
        monthly == RollingSum(daily_flow, MonthlyWindow, MinPeriods)
        three_month == RollingSum(daily_flow, ThreeMonthWindow, MinPeriods)
        six_month == RollingSum(daily_flow, SixMonthWindow, MinPeriods)
        cumulative == Cumsum(daily_flow)
    IN  TupleOf([k \in 1..n |->
            [date |-> merged[k].date, close |-> merged[k].close,
             shares |-> merged[k].shares, shares_change |-> shares_change[k],
             daily_flow |-> daily_flow[k], weekly_flow |-> weekly[k],
             monthly_flow |-> monthly[k], three_month_flow |-> three_month[k],
             six_month_flow |-> six_month[k], cumulative_flow |-> cumulative[k]]])

\* round half to even of x / unit (Python's round on an exact binary float)
RoundDiv(x, unit) ==
    LET q == x \div unit
        r == x % unit
    IN  IF 2 * r < unit THEN q
        ELSE IF 2 * r > unit THEN q + 1
        ELSE IF q % 2 = 0 THEN q ELSE q + 1

\* the unit of a close: 1/8 dollar, a binary fraction
Eighths == 2 ^ 3
Cents == 100
\* round(float(x), 0) of an amount in eighths: whole dollars
Round0(x) == RoundDiv(x, Eighths)
\* round(float(x), 2) of an amount in eighths: cents
Round2(x) == RoundDiv(x * Cents, Eighths)

\* line 146: df[df.index >= cutoff], cutoff = now - 730 days (an instant)
ChartRows(frame, nowInstant) ==
    SelectSeq(frame, LAMBDA r : 2 * r.date >= nowInstant - 2 * CutoffDays)

\* lines 148-161: the emitted flow records
FlowRecord(row) ==
    [date |-> Strftime(row.date),
     close |-> Round2(row.close),
     shares |-> row.shares,
     daily_flow |-> Round0(Val(row.daily_flow)),
     weekly_flow |-> Round0(Val(row.weekly_flow)),
     monthly_flow |-> Round0(Val(row.monthly_flow)),
     three_month_flow |-> Round0(Val(row.three_month_flow)),
     six_month_flow |-> Round0(Val(row.six_month_flow)),
     cumulative_flow |-> Round0(Val(row.cumulative_flow))]

FlowsData(chart) ==
    LET rows == SelectSeq(chart, LAMBDA r : NotNa(r.daily_flow))
    IN  TupleOf([k \in 1..Len(rows) |-> FlowRecord(rows[k])])

\* lines 178-182: a latest value, 0 when there is no row or the value is NaN
SummaryOf(frame, field) ==
    IF frame # <<>> /\ NotNa(frame[Len(frame)][field])
    THEN Round0(Val(frame[Len(frame)][field]))
    ELSE 0

\* the columns of the merged series of a frame
MergedOf(frame) ==
    TupleOf([k \in 1..Len(frame) |->
        [date |-> frame[k].date, close |-> frame[k].close, shares |-> frame[k].shares]])

\* a report whose frame is cut to the output window before the flows are derived
OutputWindowFirst(ticker, frame, nowInstant) ==
    [ticker |-> ticker,
     shares_outstanding |-> IF frame # <<>> THEN Num(frame[Len(frame)].shares) ELSE None,
     summary |-> [daily |-> 0, weekly |-> 0, monthly |-> 0, three_month |-> 0, six_month |-> 0],
     flows |-> FlowsData(Derive(ChartRows(MergedOf(frame), nowInstant)))]

\* lines 163-189: the report of a ticker (name, metadata other than the latest
\* shares, holdings and sectors are provider data copied through)
Output(ticker, frame, nowInstant) ==
    [ticker |-> ticker,
     shares_outstanding |-> IF frame # <<>> THEN Num(frame[Len(frame)].shares) ELSE None,
     summary |-> [daily |-> SummaryOf(frame, "daily_flow"),
                  weekly |-> SummaryOf(frame, "weekly_flow"),
                  monthly |-> SummaryOf(frame, "monthly_flow"),
                  three_month |-> SummaryOf(frame, "three_month_flow"),
                  six_month |-> SummaryOf(frame, "six_month_flow")],
     flows |-> FlowsData(ChartRows(frame, nowInstant))]

----------------------------------------------------------------------------
(* Inputs: the configurations, the files a run can find, the provider's answers *)

MaxObs == 2
LongLen == 130

Ticker(symbol, ishares) == [symbol |-> symbol, ishares |-> ishares]

\* etf_config.json: a ticker has a symbol, the iShares identifiers are optional
Configs ==
    { <<Ticker("EWY", TRUE), Ticker("EWJ", TRUE)>>,
      <<Ticker("EWJ", FALSE), Ticker("EWY", TRUE)>>,
      <<Ticker("EWY", TRUE)>> }

ShareDates == {<<2024, 2, 28>>, <<2024, 2, 29>>, <<2024, 3, 1>>}
ShareVals == {100, 110}
\* the initial observations are of EWY; EWJ gets its first one from a scrape
ShortKeys == ShareDates \X {"EWY"}

\* the dicts of at most MaxObs observations
ShortItems == {Item(key, shares) : key \in ShortKeys, shares \in ShareVals}
ShortHistories ==
    UNION { {h \in [1..n -> ShortItems] :
                \A a, b \in 1..n : a # b => h[a].key # h[b].key} : n \in 0..MaxObs }

\* a long daily history of EWY: every day, or (variant 2) two days out of three
LongShares(d) == 1000 + ((d * d) % 13)
LongHistories ==
    { SelectSeq([d \in 1..LongLen |-> Item(<<Strftime(d), "EWY">>, LongShares(d))],
                LAMBDA it : variant = 1 \/ Timestamp(it.key[1]) % 3 # 0)
      : variant \in 1..2 }

\* the files a run can find: none, or one a save_history wrote
ShortFiles == {NoFile} \cup {SavedFile(h) : h \in ShortHistories}
InitFiles == ShortFiles \cup {SavedFile(h) : h \in LongHistories}

\* the files a run of the scraper or the backfill can find: observations of both tickers
StoreItems == {Item(<<d, symbol>>, shares) : d \in ShareDates, symbol \in Symbols, shares \in ShareVals}
StoreFiles ==
    {NoFile} \cup
    UNION { {SavedFile(h) : h \in {g \in [1..n -> StoreItems] :
                                      \A a, b \in 1..n : a # b => g[a].key # g[b].key}}
            : n \in 0..MaxObs }
IsLong(f) == 2 * Len(f.rows) >= LongLen

\* price histories: rows [date, close] in date order, close in eighths
PriceDays == {59, 61, 64}

RECURSIVE SeqOfDays(_)
SeqOfDays(days) ==
    IF days = {} THEN <<>>
    ELSE LET d == CHOOSE x \in days : \A y \in days : x <= y
         IN  <<d>> \o SeqOfDays(days \ {d})

\* the close of a day: 82 (10.25) or 97 (12.125), in one of two patterns
ShortClose(pattern, d) == IF (d % 2 = 0) = (pattern = 1) THEN 82 ELSE 97

ShortPrices ==
    { LET ds == SeqOfDays(days)
      IN  [k \in 1..Len(ds) |-> [date |-> ds[k], close |-> ShortClose(pattern, ds[k])]]
      : days \in SUBSET PriceDays, pattern \in 1..2 }

\* a long daily price history: every day, or (variant 2) four days out of five
LongPrices ==
    { SelectSeq([d \in 1..LongLen |-> [date |-> d, close |-> 80 + ((7 * d) % 17)]],
                LAMBDA r : variant = 1 \/ r.date % 5 # 0)
      : variant \in 1..2 }

\* the price histories the provider may return for a ticker, none empty
PriceHistories(f) == IF IsLong(f) THEN LongPrices ELSE ShortPrices \ {<<>>}

\* datetime.now(): the cutoff falls before day 58, at day 61 00:00 or at day 61 12:00
Nows == {2 * (CutoffDays + 58), 2 * (CutoffDays + 61), 2 * (CutoffDays + 61) + 1}

\* what the scrape of today's export gives in fetch_flows: nothing, or (as-of date, shares)
TodayResponses == {None} \cup {<<[date |-> <<2024, 3, 4>>, shares |-> 120]>>}

----------------------------------------------------------------------------
(* fetch_flows.py main *)

RECURSIVE ScrapeFold(_, _, _, _)
\* scrape_all lines 188-208 run over the first n tickers
ScrapeFold(cfg, h, resp, n) ==
    IF n = 0 THEN h
    ELSE LET prev == ScrapeFold(cfg, h, resp, n - 1)
         IN  IF ~cfg[n].ishares \/ resp[n] = None THEN prev
             ELSE Upsert(prev, <<Val(resp[n]).date, cfg[n].symbol>>, Val(resp[n]).shares)

InitFlows ==
    /\ config \in Configs
    /\ file \in InitFiles
    /\ file0 = file
    /\ prog = "fetch_flows"
    /\ pc = "scrape"
    /\ history = EmptyDict /\ history0 = EmptyDict
    /\ i = 1 /\ j = 1 /\ w = 0
    /\ outcome = None /\ matched = {} /\ added = 0 /\ total_added = 0
    /\ skipped_date_mismatch = 0 /\ requested = <<>>
    /\ now \in Nows
    /\ hist = <<>> /\ df = <<>> /\ data = None
    /\ reports = {} /\ skipped = {}

\* lines 199-203: scrape_ishares() raised; main prints a warning and goes on
MainScrapeFailed ==
    /\ prog = "fetch_flows" /\ pc = "scrape"
    /\ pc' = "tickers"
    /\ UNCHANGED <<config, file, file0, prog, i, storeVars, flowVars>>

\* line 200: scrape_ishares() returned; the history file is rewritten
MainScrape ==
    /\ prog = "fetch_flows" /\ pc = "scrape"
    /\ \E resp \in [1..Len(config) -> TodayResponses] :
          file' = SavedFile(ScrapeFold(config, LoadExistingHistory(file), resp, Len(config)))
    /\ pc' = "tickers"
    /\ UNCHANGED <<config, file0, prog, i, storeVars, flowVars>>

\* lines 210-213: no price history, fetch_etf_data returns None
MainSkipTicker ==
    /\ prog = "fetch_flows" /\ pc = "tickers" /\ i <= Len(config)
    /\ hist' = <<>>
    /\ data' = None
    /\ skipped' = skipped \cup {config[i].symbol}
    /\ i' = i + 1
    /\ UNCHANGED <<config, file, file0, prog, pc, storeVars, now, df, reports>>

\* lines 210-219: fetch_etf_data returns a report and main writes it
MainWriteTicker ==
    /\ prog = "fetch_flows" /\ pc = "tickers" /\ i <= Len(config)
    /\ \E prices \in PriceHistories(file) :
          LET frame == Derive(Merge(prices, LoadSharesHistory(file, config[i].symbol)))
          IN  /\ hist' = prices
              /\ df' = frame
              /\ data' = <<Output(config[i].symbol, frame, now)>>
    /\ reports' = reports \cup {config[i].symbol}
    /\ i' = i + 1
    /\ UNCHANGED <<config, file, file0, prog, pc, storeVars, now, skipped>>

\* line 210: a provider call of fetch_etf_data (etf.history, etf.info) raises;
\* nothing in main catches it
MainFetchRaises ==
    /\ prog = "fetch_flows" /\ pc = "tickers" /\ i <= Len(config)
    /\ pc' = "aborted"
    /\ UNCHANGED <<config, file, file0, prog, i, storeVars, flowVars>>

\* line 221: the loop is over
MainFinished == prog = "fetch_flows" /\ pc = "tickers" /\ i > Len(config)

NextFlows ==
    \/ MainScrapeFailed
    \/ MainScrape
    \/ MainSkipTicker
    \/ MainWriteTicker
    \/ MainFetchRaises

SpecFlows == InitFlows /\ [][NextFlows]_vars

----------------------------------------------------------------------------
(* scrape_ishares.py scrape_all and backfill_ishares.py main, step by step *)

\* what fetch_ishares_shares returns: (None, None), or (date, shares)
ScrapeDates == {<<2024, 3, 1>>, <<2024, 3, 4>>}
ScrapeResponses ==
    {None} \cup {<<[date |-> d, shares |-> v]>> : d \in ScrapeDates, v \in ShareVals}

\* the --start and --end of the backfill: Friday 2024-03-01 to Monday 2024-03-04
BackfillStart == <<2024, 3, 1>>
BackfillEnd == <<2024, 3, 4>>

\* what a backfill request gives: a failure or an export without the two lines
\* (None), or the as-of date and the shares of the export
ReturnedDates == {<<2024, 2, 29>>, <<2024, 3, 1>>, <<2024, 3, 4>>}
BackfillResponses ==
    {None} \cup {<<[date |-> d, shares |-> v]>> : d \in ReturnedDates, v \in ShareVals}

\* pd.bdate_range(start, end) as "%Y%m%d": Monday to Friday (2024-01-01 is a Monday)
BusinessDays(start, end) ==
    LET days == SelectSeq([k \in 1..(Timestamp(end) - Timestamp(start) + 1) |->
                              Timestamp(start) + k - 1],
                          LAMBDA d : (d - 1) % 7 < 5)
    IN  TupleOf([k \in 1..Len(days) |-> StrftimeCompact(days[k])])

Dates == BusinessDays(BackfillStart, BackfillEnd)

\* a backfill that takes no date for one it has
AlreadyHaveNothing(h, iso_date, symbol) == FALSE

\* backfill_ticker line 63: (iso_date, symbol) in history
AlreadyHave(h, iso_date, symbol) == <<iso_date, symbol>> \in Keys(h)

\* a backfill that files the response under the date it returned, unchecked
BackfillStoreUnchecked(h, symbol, iso_date, returned_date, shares) ==
    SetItem(h, <<returned_date, symbol>>, shares)

\* backfill_ticker lines 90-96: the history after a parsed response
BackfillStore(h, symbol, iso_date, returned_date, shares) ==
    IF returned_date # iso_date THEN h
    ELSE SetItem(h, <<returned_date, symbol>>, shares)

InitStore ==
    /\ config \in Configs
    /\ file \in StoreFiles
    /\ file0 = file
    /\ prog \in {"scrape_ishares", "backfill_ishares"}
    /\ pc = "load"
    /\ history = EmptyDict /\ history0 = EmptyDict
    /\ i = 1 /\ j = 1 /\ w = 0
    /\ outcome = None /\ matched = {} /\ added = 0 /\ total_added = 0
    /\ skipped_date_mismatch = 0 /\ requested = <<>>
    /\ now = 0
    /\ hist = <<>> /\ df = <<>> /\ data = None
    /\ reports = {} /\ skipped = {}

\* scrape_all line 185, backfill main line 120
LoadHistory ==
    /\ pc = "load"
    /\ history' = LoadExistingHistory(file)
    /\ history0' = history'
    /\ pc' = "tickers"
    /\ UNCHANGED <<config, file, file0, prog, i, j, w, outcome, matched, added,
                   total_added, skipped_date_mismatch, requested, flowVars>>

\* scrape_all lines 188-194: no iShares config, a failed request or an export
\* that does not parse
ScrapeNothing ==
    /\ prog = "scrape_ishares" /\ pc = "tickers" /\ i <= Len(config)
    /\ outcome' = None
    /\ i' = i + 1
    /\ UNCHANGED <<config, file, file0, prog, pc, history, history0, j, w, matched,
                   added, total_added, skipped_date_mismatch, requested, flowVars>>

\* scrape_all lines 192-208: the scraped (date, shares) goes into the dict
ScrapeUpsert ==
    /\ prog = "scrape_ishares" /\ pc = "tickers" /\ i <= Len(config)
    /\ config[i].ishares
    /\ \E resp \in ScrapeResponses \ {None} :
          LET key == <<Val(resp).date, config[i].symbol>>
          IN  /\ outcome' = <<[key |-> key, shares |-> Val(resp).shares,
                               kind |-> UpsertKind(history, key, Val(resp).shares)]>>
              /\ history' = Upsert(history, key, Val(resp).shares)
    /\ i' = i + 1
    /\ UNCHANGED <<config, file, file0, prog, pc, history0, j, w, matched, added,
                   total_added, skipped_date_mismatch, requested, flowVars>>

\* scrape_all line 210: the loop is over, save_history is called
ScrapeSave ==
    /\ prog = "scrape_ishares" /\ pc = "tickers" /\ i > Len(config)
    /\ pc' = "save"
    /\ UNCHANGED <<config, file, file0, prog, i, storeVars, flowVars>>

\* save_history line 172: open(HISTORY_CSV, "w") empties the file
SaveOpen ==
    /\ pc = "save"
    /\ file' = [exists |-> TRUE, rows |-> <<>>]
    /\ w' = 0
    /\ pc' = "write"
    /\ UNCHANGED <<config, file0, prog, history, history0, i, j, outcome, matched,
                   added, total_added, skipped_date_mismatch, requested, flowVars>>

\* save_history lines 175-176: the next row reaches the file
SaveRow ==
    /\ pc = "write" /\ w < Len(history)
    /\ file' = [file EXCEPT !.rows = Append(@, RowsOf(history)[w + 1])]
    /\ w' = w + 1
    /\ UNCHANGED <<config, file0, prog, pc, history, history0, i, j, outcome, matched,
                   added, total_added, skipped_date_mismatch, requested, flowVars>>

\* the with block ends: the file is closed and the run returns
SaveClose ==
    /\ pc = "write" /\ w = Len(history)
    /\ pc' = "done"
    /\ UNCHANGED <<config, file, file0, prog, i, storeVars, flowVars>>

\* backfill_ticker lines 48-50: no iShares config, 0 is returned
BackfillNoConfig ==
    /\ prog = "backfill_ishares" /\ pc = "tickers" /\ i <= Len(config)
    /\ ~config[i].ishares
    /\ i' = i + 1
    /\ UNCHANGED <<config, file, file0, prog, pc, storeVars, flowVars>>

\* lines 62-65: the date is in the history already, no request is sent
BackfillSkipExisting ==
    /\ prog = "backfill_ishares" /\ pc = "tickers" /\ i <= Len(config)
    /\ config[i].ishares /\ j <= Len(Dates)
    /\ AlreadyHave(history, IsoOfCompact(Dates[j]), config[i].symbol)
    /\ j' = j + 1
    /\ UNCHANGED <<config, file, file0, prog, pc, history, history0, i, w, outcome,
                   matched, added, total_added, skipped_date_mismatch, requested, flowVars>>

\* lines 67-103: the request for the date and what becomes of the response
BackfillRequest ==
    /\ prog = "backfill_ishares" /\ pc = "tickers" /\ i <= Len(config)
    /\ config[i].ishares /\ j <= Len(Dates)
    /\ ~AlreadyHave(history, IsoOfCompact(Dates[j]), config[i].symbol)
    /\ requested' = Append(requested, <<Dates[j], config[i].symbol>>)
    /\ \E resp \in BackfillResponses :
          IF resp = None
          THEN UNCHANGED <<history, added, skipped_date_mismatch, matched>>
          ELSE LET iso_date == IsoOfCompact(Dates[j])
                   returned_date == Val(resp).date
                   shares == Val(resp).shares
               IN  /\ history' = BackfillStore(history, config[i].symbol, iso_date,
                                               returned_date, shares)
                   /\ added' = IF returned_date # iso_date THEN added ELSE added + 1
                   /\ skipped_date_mismatch' =
                          IF returned_date # iso_date THEN skipped_date_mismatch + 1
                          ELSE skipped_date_mismatch
                   /\ matched' = IF returned_date = iso_date
                                  THEN matched \cup {<<returned_date, config[i].symbol, shares>>}
                                  ELSE matched
    /\ j' = j + 1
    /\ UNCHANGED <<config, file, file0, prog, pc, history0, i, w, outcome, total_added,
                   flowVars>>

\* line 106 and main lines 125-126: the ticker is done, its count is added up
BackfillReturn ==
    /\ prog = "backfill_ishares" /\ pc = "tickers" /\ i <= Len(config)
    /\ config[i].ishares /\ j > Len(Dates)
    /\ total_added' = total_added + added
    /\ added' = 0
    /\ skipped_date_mismatch' = 0
    /\ j' = 1
    /\ i' = i + 1
    /\ UNCHANGED <<config, file, file0, prog, pc, history, history0, w, outcome,
                   matched, requested, flowVars>>

\* main lines 128-129: something was added, save_history is called
BackfillSave ==
    /\ prog = "backfill_ishares" /\ pc = "tickers" /\ i > Len(config)
    /\ total_added > 0
    /\ pc' = "save"
    /\ UNCHANGED <<config, file, file0, prog, i, storeVars, flowVars>>

\* main lines 131-132: nothing was added, the file is left alone
BackfillNothingNew ==
    /\ prog = "backfill_ishares" /\ pc = "tickers" /\ i > Len(config)
    /\ total_added = 0
    /\ pc' = "done"
    /\ UNCHANGED <<config, file, file0, prog, i, storeVars, flowVars>>

\* the process is killed, or an error ends it, wherever the run is
Crash ==
    /\ pc \in {"load", "tickers", "save", "write"}
    /\ pc' = "crashed"
    /\ UNCHANGED <<config, file, file0, prog, i, storeVars, flowVars>>

NextStore ==
    \/ LoadHistory
    \/ ScrapeNothing
    \/ ScrapeUpsert
    \/ ScrapeSave
    \/ SaveOpen
    \/ SaveRow
    \/ SaveClose
    \/ BackfillNoConfig
    \/ BackfillSkipExisting
    \/ BackfillRequest
    \/ BackfillReturn
    \/ BackfillSave
    \/ BackfillNothingNew
    \/ Crash

SpecStore == InitStore /\ [][NextStore]_vars

----------------------------------------------------------------------------
(* Properties of fetch_flows.py *)

\* the last iteration of main got a price history: hist, df and data are those
\* of the ticker config[i-1]
Fetched == prog = "fetch_flows" /\ i > 1 /\ hist # <<>>
FetchedSymbol == config[i-1].symbol

\* the shares observations of a ticker in the history file, as (date, shares)
Observations(symbol) ==
    {<<Timestamp(file.rows[k][1]), file.rows[k][3]>> :
        k \in {l \in 1..Len(file.rows) : file.rows[l][2] = symbol}}

\* the observations made on or before day d
UpTo(obs, d) == {o \in obs : o[1] <= d}
Latest(obs) == CHOOSE o \in obs : \A p \in obs : p[1] <= o[1]

\* C1: every row of the merged series at price date D carries the shares of the
\* most recent observation dated D or earlier, whether or not the observation
\* dates are price dates, and no price date earlier than the first observation
\* has a row.
C1_MergeCarriesLatestObservation ==
    Fetched =>
        LET obs == Observations(FetchedSymbol)
        IN  /\ \A k \in 1..Len(df) :
                  /\ UpTo(obs, df[k].date) # {}
                  /\ df[k].shares = Latest(UpTo(obs, df[k].date))[2]
            /\ \A p \in 1..Len(hist) :
                  UpTo(obs, hist[p].date) = {} =>
                      \A k \in 1..Len(df) : df[k].date # hist[p].date

\* C2: for every row after the first, daily_flow is the change of shares times
\* the close of the row (0 when the shares did not change); the first row has no
\* daily_flow and no flow record is emitted for it.
C2_DailyFlow ==
    Fetched =>
        /\ \A k \in 2..Len(df) :
              df[k].daily_flow = Num((df[k].shares - df[k-1].shares) * df[k].close)
        /\ df # <<>> =>
              /\ IsNa(df[1].daily_flow)
              /\ \A r \in 1..Len(Val(data).flows) :
                    Val(data).flows[r].date # Strftime(df[1].date)

InWindow(row) == 2 * row.date >= now - 2 * CutoffDays

\* C2 witness: three merged rows inside the output window, one flow 0 and one not
C2_Witness ==
    /\ Fetched
    /\ Len(df) >= 3
    /\ InWindow(df[1])
    /\ \E k \in 2..Len(df) : df[k].daily_flow = Num(0)
    /\ \E k \in 2..Len(df) : NotNa(df[k].daily_flow) /\ Val(df[k].daily_flow) # 0
    /\ Len(Val(data).flows) = Len(df) - 1

\* C5: when the processing of a configured symbol fails, the symbols after it
\* are still processed (a report written, or the symbol skipped for want of
\* prices): a failure never ends the run.
C5_FailureIsolated ==
    (prog = "fetch_flows" /\ pc = "aborted") =>
        \A k \in (i+1)..Len(config) : config[k].symbol \in reports \cup skipped

\* C6: a symbol with prices and no shares observation has an empty merged
\* series and is skipped: no report is written for it.
C6_EmptySharesSkipped ==
    (Fetched /\ Observations(FetchedSymbol) = {}) =>
        /\ df = <<>>
        /\ FetchedSymbol \in skipped
        /\ FetchedSymbol \notin reports

RECURSIVE FlowSum(_, _, _)
\* the sum of the daily flows of rows lo..hi of a frame, a row without one adding nothing
FlowSum(frame, lo, hi) ==
    IF lo > hi THEN 0
    ELSE IF lo = hi
         THEN (IF frame[lo].daily_flow = NaN THEN 0 ELSE frame[lo].daily_flow[1])
         ELSE FlowSum(frame, lo, (lo + hi) \div 2) + FlowSum(frame, (lo + hi) \div 2 + 1, hi)

\* the first of the trailing min(W, k) rows ending at row k (rows count from 1)
WindowStart(k, window) == IF k > window THEN k - window + 1 ELSE 1

RollingFields ==
    { <<"weekly_flow", WeeklyWindow>>, <<"monthly_flow", MonthlyWindow>>,
      <<"three_month_flow", ThreeMonthWindow>>, <<"six_month_flow", SixMonthWindow>> }

\* C7: in every row with a daily_flow, each rolling value is the sum of the
\* daily flows present among the trailing min(W, i+1) rows, partial windows
\* included.
C7_RollingSums ==
    Fetched =>
        \A k \in 1..Len(df) :
            NotNa(df[k].daily_flow) =>
                \A f \in RollingFields :
                    df[k][f[1]] = Num(FlowSum(df, WindowStart(k, f[2]), k))

\* C7 witness: a frame longer than the longest window, in which every window
\* has slid past flows that are not 0 (each rolling sum differs from the wider one)
C7_Witness ==
    /\ Fetched
    /\ Len(df) > SixMonthWindow + 1
    /\ LET r == df[Len(df)]
       IN  /\ r.weekly_flow # r.monthly_flow
           /\ r.monthly_flow # r.three_month_flow
           /\ r.three_month_flow # r.six_month_flow
           /\ r.six_month_flow # r.cumulative_flow
    /\ NotNa(df[2].weekly_flow)

\* a - b on values that may be NaN
Minus(a, b) == IF a = NaN \/ b = NaN THEN NaN ELSE Num(a[1] - b[1])

\* C8 as stated: in every row, the first included, cumulative_flow is the sum of
\* the daily flows up to it (the absent first one counting 0), and from the second
\* row on it grows by the daily flow of the row.
C8_CumulativeEveryRow ==
    Fetched =>
        /\ \A k \in 1..Len(df) : df[k].cumulative_flow = Num(FlowSum(df, 1, k))
        /\ \A k \in 2..Len(df) :
              Minus(df[k].cumulative_flow, df[k-1].cumulative_flow) = df[k].daily_flow

\* C8 amended: the first row has no cumulative_flow (NaN, as its daily_flow);
\* in every later row cumulative_flow is the sum of the daily flows up to it, so
\* it is the daily flow in the second row and grows by the daily flow of the row
\* from the third row on.
C8_CumulativeAfterFirst ==
    Fetched =>
        /\ df # <<>> => df[1].cumulative_flow = NaN
        /\ \A k \in 2..Len(df) : df[k].cumulative_flow = Num(FlowSum(df, 1, k))
        /\ Len(df) >= 2 => df[2].cumulative_flow = df[2].daily_flow
        /\ \A k \in 3..Len(df) :
              Minus(df[k].cumulative_flow, df[k-1].cumulative_flow) = df[k].daily_flow

\* C8 witness: three rows or more, two flows that are not 0
C8_Witness ==
    /\ Fetched
    /\ Len(df) >= 3
    /\ df[2].daily_flow # Num(0)
    /\ df[3].daily_flow # Num(0)
    /\ df[3].cumulative_flow # df[3].daily_flow

\* the rows of the full frame that have a daily flow and lie in the output window
EmittedRows ==
    SelectSeq([k \in 1..Len(df) |-> k],
              LAMBDA k : df[k].daily_flow # NaN /\ 2 * df[k].date >= now - 2 * CutoffDays)

\* round half to even to whole dollars, of an amount in eighths
Dollars(x) ==
    LET q == x \div Eighths
        r == x % Eighths
    IN  IF 2 * r < Eighths \/ (2 * r = Eighths /\ q % 2 = 0) THEN q ELSE q + 1

\* C9: the flow records are the rows of the merged series that have a daily
\* flow and a date at or after now - 730 days, in date order, each with the
\* rolling and cumulative values of the full history (in whole dollars).
C9_WindowAfterDerivation ==
    Fetched =>
        LET flows == Val(data).flows
            rows == EmittedRows
        IN  /\ Len(flows) = Len(rows)
            /\ \A r \in 1..Len(rows) :
                  LET k == rows[r]
                  IN  /\ flows[r].date = Strftime(df[k].date)
                      /\ r > 1 => df[rows[r-1]].date < df[k].date
                      /\ flows[r].daily_flow = Dollars(FlowSum(df, k, k))
                      /\ \A f \in RollingFields :
                            flows[r][f[1]] = Dollars(FlowSum(df, WindowStart(k, f[2]), k))
                      /\ flows[r].cumulative_flow = Dollars(FlowSum(df, 1, k))

\* C9 witness: a row with a flow that is not 0 lies before the output window,
\* and the first emitted record shows it in its weekly and cumulative values
C9_Witness ==
    /\ Fetched
    /\ Val(data).flows # <<>>
    /\ \E k \in 2..Len(df) :
          /\ ~InWindow(df[k])
          /\ df[k].daily_flow # Num(0)
          /\ InWindow(df[k+1])
          /\ Val(data).flows[1].date = Strftime(df[k+1].date)
          /\ Val(data).flows[1].weekly_flow # Val(data).flows[1].daily_flow
          /\ Val(data).flows[1].cumulative_flow # Val(data).flows[1].daily_flow

----------------------------------------------------------------------------
(* Properties of the history store *)

FileKeys(f) == {<<f.rows[k][1], f.rows[k][2]>> : k \in 1..Len(f.rows)}
FileRows(f) == {f.rows[k] : k \in 1..Len(f.rows)}
DictRows(h) == {<<h[k].key[1], h[k].key[2], h[k].shares>> : k \in 1..Len(h)}
Requests == {requested[k] : k \in 1..Len(requested)}

\* C3: in a backfill, every entry of the history map and every row of the file
\* that was not there when the run started is an observation whose returned
\* date is the date that was requested for it, a business day of the range; a
\* response with another date is in neither.
C3_DateIntegrity ==
    prog = "backfill_ishares" =>
        \A row \in (DictRows(history) \ DictRows(history0)) \cup (FileRows(file) \ FileRows(file0)) :
              /\ row \in matched
              /\ \E k \in 1..Len(Dates) :
                    /\ row[1][1] * 10000 + row[1][2] * 100 + row[1][3] = Dates[k]
                    /\ <<Dates[k], row[2]>> \in Requests

\* C3 witness: the loop of a ticker is over; the response to the request for
\* Friday 2024-03-01 was dropped for its date and the one for Monday is stored
C3_Witness ==
    /\ prog = "backfill_ishares" /\ pc = "tickers" /\ i <= Len(config) /\ j > Len(Dates)
    /\ skipped_date_mismatch = 1 /\ added = 1
    /\ <<20240301, config[i].symbol>> \in Requests
    /\ <<<<2024, 3, 1>>, config[i].symbol>> \notin Keys(history)
    /\ <<<<2024, 3, 4>>, config[i].symbol>> \in Keys(history) \ Keys(history0)

\* C4: a step of scrape_all that upserts (date, symbol, shares) leaves shares
\* under (date, symbol) and every other key as it was; it reports unchanged and
\* leaves the dict as it was when the key held the same value, and reports an
\* update when it held another. A run whose dict ends as it was loaded saves
\* the table it found, and every run saves its dict.
C4_UpsertStep ==
    (prog = "scrape_ishares" /\ pc = "tickers" /\ i' = i + 1 /\ outcome' # None) =>
        LET o == outcome'[1]
        IN  /\ o.key \in Keys(history') /\ Get(history', o.key) = o.shares
            /\ Keys(history') = Keys(history) \cup {o.key}
            /\ \A key \in Keys(history) \ {o.key} : Get(history', key) = Get(history, key)
            /\ o.key \notin Keys(history) => o.kind = "new"
            /\ (o.key \in Keys(history) /\ Get(history, o.key) = o.shares) =>
                  o.kind = "unchanged" /\ history' = history
            /\ (o.key \in Keys(history) /\ Get(history, o.key) # o.shares) =>
                  o.kind = "updated"

C4_SavedTable ==
    (prog = "scrape_ishares" /\ pc = "done") =>
        /\ FileRows(file) = DictRows(history)
        /\ (DictRows(history) = DictRows(history0) /\ file0.exists) => file = file0

C4_Upsert == [][C4_UpsertStep]_vars /\ [](C4_SavedTable)

\* C4 witness: a run that found (date, symbol) with another value has saved the new one
C4_Witness ==
    /\ prog = "scrape_ishares" /\ pc = "done"
    /\ outcome # None
    /\ outcome[1].kind = "updated"
    /\ <<outcome[1].key[1], outcome[1].key[2], outcome[1].shares>> \in FileRows(file)
    /\ Len(file.rows) >= 2
    /\ file # file0

\* C10: after a crash, every observation that was in the file when the run
\* started is still in it, with the shares it had or those the run gave it.
C10_CrashKeepsPersisted ==
    pc = "crashed" =>
        \A row \in FileRows(file0) :
            \/ row \in FileRows(file)
            \/ /\ <<row[1], row[2]>> \in FileKeys(file)
               /\ <<row[1], row[2]>> \in Keys(history)
               /\ <<row[1], row[2], Get(history, <<row[1], row[2]>>)>> \in FileRows(file)

\* C11 (state part): in a backfill, every entry the history was loaded with is
\* still in the dict with the shares it had; no request was sent for a date
\* the history had; every request is for a business day of the range and no
\* (day, symbol) was requested twice; the count of the ticker under way is the
\* number of keys of its symbol added, and the counts add up to the number of
\* keys added in all; the file is opened for writing, or differs from what the
\* run found, only when the total count is greater than zero.
C11_AddOnlyState ==
    prog = "backfill_ishares" =>
        /\ \A key \in Keys(history0) :
              key \in Keys(history) /\ Get(history, key) = Get(history0, key)
        /\ \A r \in Requests :
              /\ <<IsoOfCompact(r[1]), r[2]>> \notin Keys(history0)
              /\ \E k \in 1..Len(Dates) : r[1] = Dates[k]
        /\ \A a, b \in 1..Len(requested) : a # b => requested[a] # requested[b]
        /\ (pc = "tickers" /\ i <= Len(config) /\ config[i].ishares) =>
              added = Cardinality({key \in Keys(history) \ Keys(history0) :
                                      key[2] = config[i].symbol})
        /\ total_added + added = Cardinality(Keys(history)) - Cardinality(Keys(history0))
        /\ (pc \in {"save", "write"} \/ file # file0) => total_added > 0

\* C11 (step part): no step of a backfill changes or removes an entry of the
\* dict, and a request is sent only for a date the dict does not hold.
C11_AddOnlyStep ==
    prog = "backfill_ishares" =>
        /\ \A key \in Keys(history) :
              key \in Keys(history') /\ Get(history', key) = Get(history, key)
        /\ Len(requested') > Len(requested) =>
              LET r == requested'[Len(requested')]
              IN  <<IsoOfCompact(r[1]), r[2]>> \notin Keys(history)

\* C11: backfill is add-only, asks for each missing business day once, counts
\* what it adds and saves only when it added something.
C11_BackfillAddOnly == [](C11_AddOnlyState) /\ [][C11_AddOnlyStep]_vars

\* C11 witness: a backfill is done; it had Friday 2024-03-01 of a symbol and
\* sent no request for it, asked for Monday 2024-03-04, added it and saved
C11_Witness ==
    /\ prog = "backfill_ishares" /\ pc = "done"
    /\ total_added > 0
    /\ FileRows(file) = DictRows(history)
    /\ \E k \in 1..Len(config) :
          /\ <<<<2024, 3, 1>>, config[k].symbol>> \in Keys(history0)
          /\ <<20240301, config[k].symbol>> \notin Requests
          /\ <<20240304, config[k].symbol>> \in Requests
          /\ <<<<2024, 3, 4>>, config[k].symbol>> \in Keys(history) \ Keys(history0)

====
